---------------------------- MODULE Spec2Model ----------------------------
(***************************************************************************)
(* Model of the Iridium SBD modem driver (createIridium).                  *)
(*                                                                         *)
(* The repository holds the driver twice: src/unnamed/part_000 (the        *)
(* current copy) and src/index.js (the legacy copy).  They differ in what  *)
(* the frame handler does to df/er after a completion (part_000 assigns    *)
(* null, index.js applies `delete` to a `let` binding, which changes       *)
(* nothing) and in what the command timer does (part_000 only logs,        *)
(* index.js calls datafunction()).  The variable `legacy` selects the copy *)
(* for a whole behaviour; everything else is common to both files.         *)
(*                                                                         *)
(* The model takes the frames delivered to parser.on('data') as its input  *)
(* from the modem: line frames while binary.mode is off, one blob frame    *)
(* when the binary window flushes.                                         *)
(*                                                                         *)
(* A handler runs to completion (single-threaded event loop), so every     *)
(* action is one whole handler: the operators below thread a record `w`    *)
(* of the program state through the calls the handler makes.               *)
(***************************************************************************)
EXTENDS Integers, Sequences, FiniteSets, Bags

VARIABLES
  legacy,          \* TRUE: src/index.js, FALSE: src/unnamed/part_000
  er, kr, df, tf,  \* closure variables of createIridium: end/keep pattern, callback, timer
  buffer,          \* iridium.buffer: kept response lines
  timers,          \* bag of armed setTimeout timers
  lock,            \* iridium.lock
  pending,         \* iridium.pending (a JS number, or a string once set from m[6])
  c_attempt,       \* iridium.c_attempt
  messagePending,  \* iridium.messagePending
  binary,          \* iridium.binary: mode, waiting
  reqs,            \* the state objects / callbacks of the sends made so far
  crashed,         \* an exception left a handler uncaught
  out,             \* what the last handler wrote, emitted and called back
  gh,              \* history: invocations of the pending command's datafunction,
                   \* whether the wait for READY of the last AT+SBDWB ended in error,
                   \* whether the acknowledgment of its framed bytes did,
                   \* whether the command issued last was completed by an error frame,
                   \* the frames kept since the command issued last was issued
  boot,            \* the startup sequence: async.series over the init tasks
  fr,              \* the framer readSBD: iridium.data, the scratch buffer, the window
  cx               \* the codec: a payload, its framing for the write, a parse of it

vars == <<legacy, er, kr, df, tf, buffer, timers, lock, pending, c_attempt,
          messagePending, binary, reqs, crashed, out, gh, boot, fr, cx>>

-----------------------------------------------------------------------------
(* Bounds of the model *)

\* number of sends (API calls and follow-up checks) in one behaviour
MaxReq == 2
\* longest response buffer (in lines) the model lets accumulate
MaxBuf == 1
\* mailboxCheck() is called while locked only while pending is below this
MaxPending == 2
\* the most times one caller's callback is observed
MaxCb == 2
\* the most mailboxSend cycles counted for one payload
MaxCycles == 3
\* the most armed copies of one timer
MaxCopies == 1
\* globals.maxAttempts as configured through open(config) (the default is 10)
maxAttempts == 2
\* the most bytes the serial port delivers in one behaviour
MaxBytes == 5
\* the most entries into binary mode in one behaviour
MaxEntries == 2
\* the longest payload built from every byte of PayloadBytes
MaxPayload == 3
\* the longest run of 0xff bytes in a payload (258 * 255 exceeds 65535)
LongRun == 258

(* Program constants *)

scratchSize == 512
defaultTimeout == 60000
simpleTimeout == 2000
timeoutForever == -1
defaultMaxTries == 3

-----------------------------------------------------------------------------
(* JavaScript values *)

Undefined == "undefined"
Null == "null"
False == "false"

\* !x for the values an error slot or a pattern slot can hold
Falsy(x) == x \in {Undefined, Null, False}

\* err == null
LooseNull(x) == x \in {Undefined, Null}

\* c_attempt is a number, NaN or undefined
NaN == 0 - 1
UndefNum == 0 - 2

\* a sequence number that is undefined
NoSn == 0 - 1

-----------------------------------------------------------------------------
(* Frames handed to parser.on('data') *)

Line(t) == [t |-> t, s |-> 0, sn |-> 0, ms |-> 0, q |-> 0, blob |-> <<>>]

\* "+CIEV:0,<n>\r"
Ciev(n) == [Line("CIEV") EXCEPT !.s = n]

\* "+SBDIX: <s>, <sn>, <ms>, 1, 5, <q>\r"
Sbdix(s, sn, ms, q) == [t |-> "SBDIX", s |-> s, sn |-> sn, ms |-> ms, q |-> q, blob |-> <<>>]

\* a binary blob flushed by the framer
Blob(b) == [Line("BLOB") EXCEPT !.blob = b]

SessionLines ==
  { Sbdix(0, 7, 0, 0), Sbdix(4, 8, 1, 2), Sbdix(0, 7, 2, 0),
    Sbdix(18, 7, 0, 0), Sbdix(32, 7, 0, 0), Sbdix(5, 7, 0, 0), Sbdix(18, 7, 1, 2) }

\* "+SBDIX: garbage\r" matches the keep pattern but not the six-field pattern;
\* "SBDRING READY\r" and "SBDRING ERROR\r" match /^SBDRING/ and also /READY/, /ERROR/;
\* "+AREG:2,0\r" is a registration result, "+AREG\r" matches /^\+AREG/ only
Lines ==
  { Line("OK"), Line("READY"), Line("ERROR"), Ciev(5), Ciev(0),
    Line("SBDRING"), Line("AREG"), Line("SBDIXBAD"),
    Line("RINGREADY"), Line("RINGERROR"), Line("AREGBAD") } \cup SessionLines

Blobs == { Blob(<<0, 1, 65>>), Blob(<<0, 2, 65, 66>>), Blob(<<0, 2, 65>>), Blob(<<0>>) }

\* bytes an uninitialised Buffer.allocUnsafe may hold
Filler == {0, 255}

\* regexp.test(data) for the patterns of the driver
Test(re, data) ==
  CASE re = "OK"      -> data.t = "OK"                        \* /^OK\r/
    [] re = "READY"   -> data.t \in {"READY", "RINGREADY"}    \* /READY/
    [] re = "ALL"     -> TRUE                                 \* /.*/
    [] re = "CIEV"    -> data.t = "CIEV" /\ data.s # 0        \* /\+CIEV:0,[^0]/
    [] re = "SBDIX"   -> data.t \in {"SBDIX", "SBDIXBAD"}     \* /\+SBDIX/
    [] re = "ERROR"   -> data.t \in {"ERROR", "RINGERROR"}    \* /ERROR/
    [] re = "SBDRING" -> data.t \in {"SBDRING", "RINGREADY", "RINGERROR"}   \* /^SBDRING/
    [] re = "AREG"    -> data.t \in {"AREG", "AREGBAD"}       \* /^\+AREG/
    [] OTHER          -> FALSE

\* iridium.unsollicited, iridium.errors
unsollicited == {"SBDRING", "AREG"}
errors == {"ERROR"}

-----------------------------------------------------------------------------
(* Callbacks (closures) given to AT, and timers *)

\* a closure: its code (k), the send it belongs to (r) and what it captured
Cont(k, r, e, sn, q) == [k |-> k, r |-> r, e |-> e, sn |-> sn, q |-> q]
NullCont == Cont(Null, 0, Null, NoSn, 0)
UndefCont == Cont(Undefined, 0, Null, NoSn, 0)

Timer(k, c) == [k |-> k, c |-> c]
NoTimer == Timer("none", NullCont)

\* the text argument of a datafunction
Text(kind, lines) == [kind |-> kind, lines |-> lines]
NoText == Text(Undefined, <<>>)

NoWrite == [cmd |-> "none", r |-> 0]
NoIssued == [er |-> Undefined, kr |-> Undefined, df |-> UndefCont]
NoNm == [n |-> 0, payload |-> <<>>, queued |-> 0, r |-> 0]
NoCb == [r |-> 0, err |-> Null, sn |-> NoSn]
NoRun == [k |-> "none", r |-> 0, by |-> "none"]
NoIx == [s |-> -1, sn |-> NoSn, ms |-> -1, q |-> -1]

\* what one handler did: the command it wrote, the 'newmessage' it emitted, the caller's
\* callback it invoked, the datafunction it ran, the session result it parsed, the timer
\* it scheduled, whether its AT superseded a pending command (and that one's timer was
\* armed), the unsolicited handler it dispatched to, the frame it was given, and the
\* event that ran it
Out0 == [write |-> NoWrite, issued |-> NoIssued, nm |-> NoNm, cb |-> NoCb, run |-> NoRun, ix |-> NoIx,
         sched |-> "none", sup |-> FALSE, supArmed |-> FALSE, unsol |-> "none",
         data |-> Line("none"), op |-> "none", init |-> FALSE, err |-> Undefined,
         text |-> NoText]

NoReq == [origin |-> "none", msg |-> "none", binaryMessage |-> FALSE, failCount |-> 0,
          cbCount |-> 0, cbErr |-> Null, cbSn |-> NoSn, cycles |-> 0, active |-> FALSE,
          parent |-> 0, nm |-> 0]

Rids == 1..MaxReq

\* the framer before any chunk: iridium.data = '', binary.bufferCounter = 0 (buffer is the
\* filled part of binary.buffer), no binary.timeout promise and no flush attached to it;
\* frames, fed, bin, atEntry and entries are history: the frames pushed, the bytes fed
\* in line mode, the bytes fed during the current window, the number of frames pushed
\* when binary mode was entered, the number of entries, and the number of bytes received
Framer0 == [data |-> <<>>, buffer |-> <<>>, timeout |-> "none", then |-> FALSE,
            rejected |-> FALSE, frames |-> <<>>, fed |-> <<>>, bin |-> <<>>,
            atEntry |-> 0, entries |-> 0, total |-> 0]

\* the startup sequence before open(): the port is not open, the series is not started,
\* no task callback was called, 'initialized' was not emitted; `answered` lists the
\* startup commands that a frame completed without error
Boot0 == [opened |-> FALSE, flowControl |-> FALSE, started |-> FALSE, called |-> {},
          done |-> FALSE, failed |-> FALSE, emitted |-> 0, answered |-> <<>>]

\* the program state as one record
World ==
  [er |-> er, kr |-> kr, df |-> df, tf |-> tf, buffer |-> buffer, timers |-> timers,
   lock |-> lock, pending |-> pending, c_attempt |-> c_attempt,
   messagePending |-> messagePending, binary |-> binary, reqs |-> reqs,
   crashed |-> crashed, out |-> Out0, gh |-> gh, boot |-> boot, fr |-> fr,
   over |-> FALSE,
   fill |-> 0]

Commit(w) ==
  /\ ~w.over
  /\ er' = w.er /\ kr' = w.kr /\ df' = w.df /\ tf' = w.tf
  /\ buffer' = w.buffer /\ timers' = w.timers
  /\ lock' = w.lock /\ pending' = w.pending /\ c_attempt' = w.c_attempt
  /\ messagePending' = w.messagePending /\ binary' = w.binary
  /\ reqs' = w.reqs /\ crashed' = w.crashed /\ out' = w.out /\ gh' = w.gh
  /\ boot' = w.boot /\ fr' = w.fr
  /\ UNCHANGED <<legacy, cx>>

\* an uncaught TypeError / ReferenceError / RangeError
Throw(w) == [w EXCEPT !.crashed = TRUE]

\* clearTimeout(t)
ClearTimeout(bag, t) == IF t # NoTimer /\ BagIn(t, bag) THEN bag (-) SetToBag({t}) ELSE bag


\* setTimeout(...)
SetTimeout(w, t) ==
  IF CopiesIn(t, w.timers) >= MaxCopies THEN [w EXCEPT !.over = TRUE]
  ELSE [w EXCEPT !.timers = @ (+) SetToBag({t})]

\* Number(iridium.pending), as `pending > 0` reads it
PendingNum(p) == p.v

\* `iridium.pending += 1` in both copies: a string gets "1" appended
PendingIncConcat(p) == IF p.str THEN [p EXCEPT !.v = 10 * @ + 1] ELSE [p EXCEPT !.v = @ + 1]

\* mailboxCheck's increment: index.js has `iridium.pending++`, which converts a string to
\* a number first; part_000 has `iridium.pending += 1`, which appends "1" to a string
PendingInc(p) ==
  IF legacy THEN [str |-> FALSE, v |-> p.v + 1]
  ELSE IF p.str THEN [p EXCEPT !.v = 10 * @ + 1] ELSE [p EXCEPT !.v = @ + 1]

-----------------------------------------------------------------------------
(* Command engine: AT *)

\* AT without its clearTimeout(tf): the timer of the superseded command stays armed
ATKeepTimer(w, command, endregexp, keepregexp, datafunction, timeout) ==
  LET t  == IF timeout = 0 THEN defaultTimeout ELSE timeout
      T  == Timer("at", datafunction)
      w1 == [w EXCEPT !.er = endregexp, !.kr = keepregexp,
                      !.df = datafunction,
                      !.out.write = [cmd |-> command, r |-> datafunction.r],
                      !.out.issued = [er |-> endregexp, kr |-> keepregexp,
                                      df |-> datafunction],
                      !.out.sup = (w.df.k \notin {Null, Undefined} /\ w.gh.dfCalls = 0),
                      !.out.supArmed = BagIn(w.tf, w.timers),
                      !.gh.dfCalls = 0, !.gh.errDone = FALSE, !.gh.kept = <<>>]
  IN IF t > 0 THEN [w1 EXCEPT !.tf = T, !.timers = @ (+) SetToBag({T})] ELSE w1

\* AT(command, endregexp, keepregexp, datafunction, timeout); timeout 0 is "not given"
AT(w, command, endregexp, keepregexp, datafunction, timeout) ==
  LET t  == IF timeout = 0 THEN defaultTimeout ELSE timeout
      T  == Timer("at", datafunction)
      w1 == [w EXCEPT !.er = endregexp, !.kr = keepregexp,
                      !.timers = ClearTimeout(@, w.tf), !.tf = NoTimer,
                      !.df = datafunction,
                      !.out.write = [cmd |-> command, r |-> datafunction.r],
                      !.out.issued = [er |-> endregexp, kr |-> keepregexp,
                                      df |-> datafunction],
                      !.out.sup = (w.df.k \notin {Null, Undefined} /\ w.gh.dfCalls = 0),
                      !.out.supArmed = BagIn(w.tf, w.timers),
                      !.gh.dfCalls = 0, !.gh.errDone = FALSE, !.gh.kept = <<>>]
  IN IF t > 0 THEN [w1 EXCEPT !.tf = T, !.timers = @ (+) SetToBag({T})] ELSE w1

ATS(w, command, endregexp, keepregexp, callback, timeout) ==
  AT(w, command, endregexp, keepregexp, callback, timeout)

waitForNetwork(w, callback) ==
  ATS(w, "AT+CIER=1,1,0,0", "CIEV", "ALL", callback, timeoutForever)

disableSignalMonitoring(w, callback) ==
  ATS(w, "AT+CIER=0,0,0,0", "OK", "ALL", callback, simpleTimeout)

clearMOBuffers(w, callback) ==
  ATS(w, "AT+SBDD0", "OK", "ALL", callback, simpleTimeout)

clearMTBuffers(w, callback) ==
  ATS(w, "AT+SBDD1", "OK", "ALL", callback, simpleTimeout)

enableBinaryMode(w) == [w EXCEPT !.binary = [mode |-> TRUE, waiting |-> TRUE]]

disableFlowControl(w, callback) ==
  ATS(w, "AT&K0", "OK", "ALL", callback, simpleTimeout)

echoOff(w, callback) ==
  ATS(w, "ATE0", "OK", "ALL", callback, simpleTimeout)

clearBuffers(w, callback) ==
  ATS(w, "AT+SBDD2", "OK", "ALL", callback, simpleTimeout)

enableRegistration(w, callback) ==
  ATS(w, "AT+SBDAREG=1", "OK", "ALL", callback, simpleTimeout)

ringAlertEnable(w, callback) ==
  ATS(w, "AT+SBDMTA=1", "OK", "ALL", callback, simpleTimeout)

-----------------------------------------------------------------------------
(* Startup: open's 'open' handler, init, batchProcess, initComplete *)

\* the tasks init gives to batchProcess, initComplete being the one after the last
InitTasks == <<"echoOff", "clearBuffers", "enableRegistration", "ringAlertEnable">>

\* the callback async.series hands to task i
TaskCont(i) == Cont("task", 0, Null, NoSn, i)

\* async.series calls task i
runTask(w, i) ==
  CASE InitTasks[i] = "echoOff"            -> echoOff(w, TaskCont(i))
    [] InitTasks[i] = "clearBuffers"       -> clearBuffers(w, TaskCont(i))
    [] InitTasks[i] = "enableRegistration" -> enableRegistration(w, TaskCont(i))
    [] OTHER                               -> ringAlertEnable(w, TaskCont(i))

\* initComplete(callback): emit 'initialized', then callback(null) ends the series
initComplete(w) ==
  [w EXCEPT !.boot.emitted = @ + 1, !.boot.done = TRUE, !.out.init = TRUE]

\* the callback of task i is called with err: async.series refuses a second call, stops
\* at an error, and otherwise calls the next task at once
seriesCallback(w, i, err) ==
  IF i \in w.boot.called THEN Throw(w)                  \* Callback was already called
  ELSE LET w1 == [w EXCEPT !.boot.called = @ \cup {i}]
       IN IF ~Falsy(err) THEN [w1 EXCEPT !.boot.done = TRUE, !.boot.failed = TRUE]
          ELSE IF i < Len(InitTasks) THEN runTask(w1, i + 1)
          ELSE initComplete(w1)

\* init(): batchProcess(tasks) starts the series with its first task
init(w) == runTask([w EXCEPT !.boot.started = TRUE], 1)

-----------------------------------------------------------------------------
(* Framer: readSBD *)

LF == 10
CR == 13

\* data.split('\n'): the segments between newlines, the last one being what follows
\* the last newline
RECURSIVE SplitNL(_, _, _)
SplitNL(s, cur, parts) ==
  IF s = <<>> THEN Append(parts, cur)
  ELSE IF Head(s) = LF THEN SplitNL(Tail(s), <<>>, Append(parts, cur))
  ELSE SplitNL(Tail(s), Append(cur, Head(s)), parts)

\* this.push(frame): `this` is the stream in index.js (a function expression); in
\* part_000 readSBD is an arrow function, `this` is not the stream and has no push
LineFrameOf(bytes) == [kind |-> "line", bytes |-> bytes]
BlobFrameOf(bytes) == [kind |-> "blob", bytes |-> bytes]

\* the line branch of readSBD
readLines(w, chunk) ==
  LET parts == SplitNL(w.fr.data \o chunk, <<>>, <<>>)
      n     == Len(parts)
      w1    == [w EXCEPT !.fr.data = parts[n], !.fr.fed = @ \o chunk]
  IN IF n = 1 THEN w1
     ELSE IF ~legacy THEN Throw(w1)                       \* this.push is not a function
     ELSE [w1 EXCEPT !.fr.frames = @ \o [i \in 1..(n - 1) |-> LineFrameOf(parts[i])]]

\* the callback given to binary.timeout.then
flush(w) ==
  IF ~legacy THEN [w EXCEPT !.fr.rejected = TRUE]         \* this.push is not a function
  ELSE [w EXCEPT !.fr.frames = Append(@, BlobFrameOf(w.fr.buffer)),
                 !.fr.buffer = <<>>, !.binary.mode = FALSE]

\* a copy that appends the whole chunk, whatever room is left
copiedAll(scratch, chunk) == scratch \o chunk

\* chunk.copy(binary.buffer, bufferCounter): what fits in the scratch buffer
copied(scratch, chunk) ==
  LET room == scratchSize - Len(scratch)
  IN scratch \o (IF Len(chunk) <= room THEN chunk ELSE SubSeq(chunk, 1, room))

\* the binary branch of readSBD; a flush attached to a resolved promise runs as soon
\* as the handler has returned
readBinary(w, chunk) ==
  LET attach == w.binary.waiting
      w1 == IF attach THEN [w EXCEPT !.binary.waiting = FALSE, !.fr.then = TRUE] ELSE w
      w2 == [w1 EXCEPT !.fr.buffer = copied(@, chunk),
                       !.fr.bin = IF w.fr.timeout = "pending" THEN @ \o chunk ELSE @]
  IN IF attach /\ w.fr.timeout = "resolved" THEN flush(w2) ELSE w2

readSBD(w, chunk) ==
  IF w.binary.mode THEN readBinary(w, chunk) ELSE readLines(w, chunk)

-----------------------------------------------------------------------------
(* Sends *)

\* sendMessage(state, callback, maxWait)
sendMessage(w, r) ==
  LET command == IF w.reqs[r].msg # "empty" THEN "AT+SBDWT" ELSE "AT+SBDD0"
      w1 == [w EXCEPT !.reqs[r].active = TRUE]
  IN AT(w1, command, "OK", "ALL", Cont("sm_write", r, Null, NoSn, 0), 0)

RECURSIVE SumRange(_, _, _)
\* the sum of p[lo..hi], by halves
SumRange(p, lo, hi) ==
  IF lo > hi THEN 0
  ELSE IF lo = hi THEN p[lo]
  ELSE LET mid == (lo + hi) \div 2
       IN SumRange(p, lo, mid) + SumRange(p, mid + 1, hi)

\* for (i = 0; i < buffer.length; i++) sum += buffer[i]
SumBytes(p) == SumRange(p, 1, Len(p))

\* the framing with the two bytes of the sum stored low byte first
encodeWriteLowFirst(p) ==
  LET sum == SumBytes(p)
  IN [command |-> [text |-> "AT+SBDWB=", n |-> Len(p)],
      ob |-> p \o <<sum % 256, (sum \div 256) % 256>>]

\* the framing of sendBinaryMessage: `command` and `ob`
\* (ob[length + 1] = sum & 0xff; sum >>= 8; ob[length] = sum & 0xff)
encodeWrite(p) ==
  LET sum == SumBytes(p)
  IN [command |-> [text |-> "AT+SBDWB=", n |-> Len(p)],
      ob |-> p \o <<(sum \div 256) % 256, sum % 256>>]

\* the codec before any payload is framed
Codec0 == [stage |-> "idle", p |-> <<>>, command |-> [text |-> "", n |-> 0],
           ob |-> <<>>, blob |-> <<>>, back |-> <<>>, threw |-> FALSE]

\* sendBinaryMessage(state, callback, maxWait)
sendBinaryMessage(w, r) ==
  LET w1 == [w EXCEPT !.reqs[r].binaryMessage = TRUE, !.reqs[r].active = TRUE]
  IN IF w.reqs[r].msg = "empty" THEN sendMessage(w1, r)
     ELSE AT([w1 EXCEPT !.gh.readyErr = FALSE, !.gh.ackErr = FALSE],
             "AT+SBDWB", "READY", "ALL", Cont("sbm_ready", r, Null, NoSn, 0), 0)

\* the caller's callback(err, momsn)
UserCallback(w, r, err, sn) ==
  IF w.reqs[r].cbCount >= MaxCb THEN [w EXCEPT !.over = TRUE]
  ELSE [w EXCEPT !.reqs[r].cbCount = @ + 1, !.reqs[r].cbErr = err, !.reqs[r].cbSn = sn,
                 !.out.cb = [r |-> r, err |-> err, sn |-> sn]]

\* mailboxSend's callback without the follow-up: the lock is released whatever is pending
mailboxSendDoneNoFollowUp(w, r, err, momsn) ==
  IF LooseNull(err)
  THEN UserCallback([w EXCEPT !.lock = 0], r, False, momsn)
  ELSE [SetTimeout(w, Timer("retry", Cont("retry", r, Null, NoSn, 0)))
          EXCEPT !.out.sched = "retry"]

\* the callback mailboxSend gives to sendBinaryMessage
mailboxSendDone(w, r, err, momsn) ==
  IF LooseNull(err)
  THEN LET w1 == IF PendingNum(w.pending) > 0
                 THEN [SetTimeout(w, Timer("check", Cont("check", r, Null, NoSn, 0)))
                         EXCEPT !.out.sched = "check"]
                 ELSE [w EXCEPT !.lock = 0]
       IN UserCallback(w1, r, False, momsn)
  ELSE [SetTimeout(w, Timer("retry", Cont("retry", r, Null, NoSn, 0)))
          EXCEPT !.out.sched = "retry"]

\* mailboxSend(buffer, callback)
mailboxSend(w, r) ==
  LET ca == IF w.c_attempt \in {NaN, UndefNum} THEN NaN ELSE w.c_attempt + 1
      w1 == [w EXCEPT !.c_attempt = ca]
  IN IF ca # NaN /\ ca <= maxAttempts
     THEN IF w.reqs[r].cycles >= MaxCycles THEN [w1 EXCEPT !.over = TRUE]
          ELSE sendBinaryMessage(
                 [w1 EXCEPT !.lock = 1,
                            !.reqs[r].failCount = 0, !.reqs[r].binaryMessage = FALSE,
                            !.reqs[r].cycles = @ + 1, !.reqs[r].nm = 0], r)
     ELSE UserCallback(w1, r, "exhausted", NoSn)

\* `callback` of a send: mailboxSend's closure, the caller's function, or undefined
\* (mailboxCheck and the follow-up check pass none)
Callback(w, r, err, sn) ==
  LET w1 == [w EXCEPT !.reqs[r].active = FALSE]
  IN CASE w.reqs[r].origin \in {"mailboxCheck", "followup"} -> Throw(w1)
       [] w.reqs[r].origin \in {"sendCompressedMessage", "mailboxSend"} ->
            mailboxSendDone(w1, r, err, sn)
       [] OTHER -> UserCallback(w1, r, err, sn)

-----------------------------------------------------------------------------
(* Session *)

\* initiateSession(state, callback): issue AT+SBDIX
initiateSession(w, r) ==
  AT(w, "AT+SBDIX", "OK", "SBDIX", Cont("ix", r, Null, NoSn, 0), 0)

\* finishSession without the AT+SBDD0: the callback is invoked at once
finishSessionNoClear(w, r, momsn) ==
  UserCallback([w EXCEPT !.reqs[r].active = FALSE], r, Null, momsn)

\* finishSession(callback, momsn)
finishSession(w, r, momsn) ==
  clearMOBuffers(w, Cont("fin", r, Null, momsn, 0))

\* readBinaryMessage(mtqueued, callback), callback being initiateSession's closure
readBinaryMessage(w, r, momsn, mtqueued) ==
  AT(enableBinaryMode(w), "AT+SBDRB", False, False,
     Cont("rb", r, Null, momsn, mtqueued), simpleTimeout)

\* the parse of readBinaryMessage copying from offset 1 instead of 2
decodeReadOffByOne(ib, fill) ==
  LET messageLength == ib[1] * 256 + ib[2]
  IN [i \in 1..messageLength |-> IF i + 1 <= Len(ib) THEN ib[i + 1] ELSE fill]

\* the length-prefixed parse of readBinaryMessage: bytes 2..length+2 of the blob,
\* what lies beyond the blob being uninitialised memory
decodeRead(ib, fill) ==
  LET messageLength == ib[1] * 256 + ib[2]
  IN [i \in 1..messageLength |-> IF i + 2 <= Len(ib) THEN ib[i + 2] ELSE fill]

\* text.match(/\+SBDIX: (\d+), (\d+), (\d+), (\d+), (\d+), (\d+)/): the first such line
WellFormed(lines) == {i \in 1..Len(lines) : lines[i].t = "SBDIX"}
FirstMatch(lines) ==
  lines[CHOOSE i \in WellFormed(lines) : \A j \in WellFormed(lines) : i <= j]

\* the failure named for a moStatus above 4
FailureName(status) ==
  IF status = 18 THEN "radio failure"
  ELSE IF status = 32 THEN "network failure" ELSE "unknown failure"

\* the session callback inspecting mtStatus whatever moStatus is
sessionResultMtAlways(w, r, err, text) ==
  IF ~Falsy(err)
  THEN clearMOBuffers([w EXCEPT !.messagePending = 1], Cont("clr_err", r, err, NoSn, 0))
  ELSE IF text.kind # "string" THEN Throw(w)
  ELSE IF WellFormed(text.lines) = {} THEN Throw(w)
  ELSE LET m  == FirstMatch(text.lines)
           w1 == [w EXCEPT !.out.ix = [s |-> m.s, sn |-> m.sn, ms |-> m.ms, q |-> m.q],
                           !.gh.ix = [s |-> m.s, sn |-> m.sn, ms |-> m.ms, q |-> m.q],
                           !.gh.moDone = IF m.s <= 4 THEN @ \cup {r} ELSE @,
                           !.reqs[r].nm = 0]
           w2 == [w1 EXCEPT !.messagePending = IF m.s <= 4 THEN 0 ELSE 1]
       IN IF m.ms = 0 THEN finishSession(w2, r, m.sn)
          ELSE IF m.ms = 1 THEN readBinaryMessage(w2, r, m.sn, m.q)
          ELSE finishSession(w2, r, m.sn)

\* the callback initiateSession gives to AT
sessionResult(w, r, err, text) ==
  IF ~Falsy(err)
  THEN clearMOBuffers([w EXCEPT !.messagePending = 1], Cont("clr_err", r, err, NoSn, 0))
  ELSE IF text.kind # "string" THEN Throw(w)                    \* text.match is not a function
  ELSE IF WellFormed(text.lines) = {} THEN Throw(w)             \* momsn is not defined
  ELSE LET m  == FirstMatch(text.lines)
           w1 == [w EXCEPT !.out.ix = [s |-> m.s, sn |-> m.sn, ms |-> m.ms, q |-> m.q],
                           !.gh.ix = [s |-> m.s, sn |-> m.sn, ms |-> m.ms, q |-> m.q],
                           !.gh.moDone = IF m.s <= 4 THEN @ \cup {r} ELSE @,
                           !.reqs[r].nm = 0]
       IN IF m.s <= 4
          THEN LET w2 == [w1 EXCEPT !.messagePending = 0]
               IN IF m.ms = 0 THEN finishSession(w2, r, m.sn)
                  ELSE IF m.ms = 1 THEN readBinaryMessage(w2, r, m.sn, m.q)
                  ELSE finishSession(w2, r, m.sn)
          ELSE clearMOBuffers([w1 EXCEPT !.messagePending = 1],
                              Cont("clr_retry", r, FailureName(m.s), NoSn, 0))

\* the retry test with <= in place of <: one resubmission more
retryOrFailInclusive(w, r, label) ==
  IF w.reqs[r].failCount <= defaultMaxTries
  THEN LET w1 == [w EXCEPT !.reqs[r].failCount = @ + 1]
       IN IF w.reqs[r].binaryMessage THEN sendBinaryMessage(w1, r) ELSE sendMessage(w1, r)
  ELSE Callback(w, r, label, NoSn)

\* the callback of the clearMOBuffers issued for a failed moStatus
retryOrFail(w, r, label) ==
  IF w.reqs[r].failCount < defaultMaxTries
  THEN LET w1 == [w EXCEPT !.reqs[r].failCount = @ + 1]
       IN IF w.reqs[r].binaryMessage THEN sendBinaryMessage(w1, r) ELSE sendMessage(w1, r)
  ELSE Callback(w, r, label, NoSn)

\* the callback readBinaryMessage gives to AT
binaryRead(w, c, err, text) ==
  IF ~Falsy(err) THEN clearMTBuffers(w, Cont("mt_clr", c.r, Null, c.sn, 0))
  ELSE IF text.kind # "buffer" THEN Throw(w)                    \* readUInt16BE is not a function
  ELSE IF Len(text.lines[1].blob) < 2 THEN Throw(w)             \* RangeError
  ELSE LET messageBuffer == decodeRead(text.lines[1].blob, w.fill)
           w1 == [w EXCEPT !.binary.mode = FALSE,
                           !.pending = [str |-> TRUE, v |-> c.q],
                           !.out.nm = [n |-> 1, payload |-> messageBuffer, queued |-> c.q,
                                       r |-> c.r],
                           !.reqs[c.r].nm = @ + 1]
       IN clearMTBuffers(w1, Cont("mt_clr", c.r, Null, c.sn, 0))

\* datafunction(err, text) for each closure the driver gives to AT
RunCont(w0, c, err, text, by) ==
  LET w == [w0 EXCEPT !.gh.dfCalls = @ + 1, !.out.run = [k |-> c.k, r |-> c.r, by |-> by],
                      !.out.err = err, !.out.text = text,
                      !.boot.answered =
                         IF c.k = "task" /\ by = "frame" /\ Falsy(err)
                            /\ c.q \notin w0.boot.called
                         THEN Append(@, InitTasks[c.q]) ELSE @]
      r == c.r
      onErr == clearMOBuffers([w EXCEPT !.messagePending = 0], Cont("clr_err", r, err, NoSn, 0))
  IN IF w0.gh.dfCalls >= 2 THEN [w0 EXCEPT !.over = TRUE]
     ELSE
     CASE c.k = "sbm_ready" ->
            IF ~Falsy(err)
            THEN clearMOBuffers([w EXCEPT !.messagePending = 0, !.gh.readyErr = TRUE],
                                Cont("clr_err", r, err, NoSn, 0))
            ELSE ATS(w, "ob", "OK", "ALL", Cont("sbm_ack", r, Null, NoSn, 0), 0)
       [] c.k = "sbm_ack" ->
            IF ~Falsy(err)
            THEN clearMOBuffers([w EXCEPT !.messagePending = 0, !.gh.ackErr = TRUE],
                                Cont("clr_err", r, err, NoSn, 0))
            ELSE waitForNetwork([w EXCEPT !.messagePending = 1], Cont("net", r, Null, NoSn, 0))
       [] c.k = "sm_write" ->
            IF ~Falsy(err) THEN onErr
            ELSE waitForNetwork([w EXCEPT !.messagePending = 1], Cont("net", r, Null, NoSn, 0))
       [] c.k = "net" ->
            IF ~Falsy(err) THEN onErr
            ELSE disableSignalMonitoring([w EXCEPT !.messagePending = 2],
                                         Cont("dis", r, Null, NoSn, 0))
       [] c.k = "dis" -> initiateSession(w, r)
       [] c.k = "ix" -> sessionResult(w, r, err, text)
       [] c.k = "clr_err" -> Callback(w, r, c.e, NoSn)
       [] c.k = "clr_retry" -> retryOrFail(w, r, c.e)
       [] c.k = "fin" -> Callback(w, r, err, c.sn)
       [] c.k = "rb" -> binaryRead(w, c, err, text)
       [] c.k = "mt_clr" -> clearMOBuffers(w, Cont("fin", r, Null, c.sn, 0))
       [] c.k = "init" -> init(w)
       [] c.k = "task" -> seriesCallback(w, c.q, err)
       [] OTHER -> Throw(w)

\* df(err, text): the wrapper AT installs
Df(w, err, text) ==
  RunCont([w EXCEPT !.timers = ClearTimeout(@, w.tf), !.tf = NoTimer], w.df, err, text, "frame")

-----------------------------------------------------------------------------
(* Frame handler: parser.on('data') *)

\* sbdring(): emit 'ringalert'
sbdring(w) == [w EXCEPT !.out.unsol = "sbdring"]

\* areg(line): line.match(/^\+AREG:(\d+),(\d+)/), m[1], m[2]
areg(w, line) ==
  IF line.t = "AREG" THEN [w EXCEPT !.out.unsol = "areg"]
  ELSE Throw(w)                                                \* m is null

\* what follows each df(...) call: part_000 assigns null, index.js `delete`s a binding
AfterDone(w0) ==
  LET w == [w0 EXCEPT !.gh.kept = <<>>]
  IN IF legacy THEN w ELSE [w EXCEPT !.df = NullCont, !.er = Null]

DataOf(data) == Text(IF data.t = "BLOB" THEN "buffer" ELSE "string", <<data>>)

\* the frame handler testing the error patterns before the unsolicited ones
ParserErrorsFirst(w, data) ==
  IF Falsy(w.er)
  THEN IF w.df.k \in {Null, Undefined} THEN Throw(w)
       ELSE LET w1 == Df(w, Null, DataOf(data))
            IN IF w1.crashed \/ w1.over THEN w1 ELSE AfterDone(w1)
  ELSE IF \E x \in errors : Test(x, data)
  THEN LET w1 == Df([w EXCEPT !.gh.errDone = (@ \/ w.gh.dfCalls = 0)], "ERROR", Text("string", w.buffer))
       IN IF w1.crashed \/ w1.over THEN w1 ELSE AfterDone([w1 EXCEPT !.buffer = <<>>])
  ELSE IF \E x \in unsollicited : Test(x, data)
  THEN IF Test("SBDRING", data) THEN sbdring(w) ELSE areg(w, data)
  ELSE LET keep == Falsy(w.kr) \/ Test(w.kr, data)
           w1 == IF ~keep THEN w
                 ELSE IF Len(w.buffer) >= MaxBuf THEN [w EXCEPT !.over = TRUE]
                 ELSE [w EXCEPT !.buffer = Append(@, data), !.gh.kept = Append(@, data)]
       IN IF w1.over \/ ~Test(w.er, data) THEN w1
          ELSE LET w2 == Df(w1, Null, Text("string", w1.buffer))
               IN IF w2.crashed \/ w2.over THEN w2 ELSE AfterDone([w2 EXCEPT !.buffer = <<>>])

Parser(w, data) ==
  IF Falsy(w.er)
  THEN IF w.df.k \in {Null, Undefined} THEN Throw(w)           \* df is not a function
       ELSE LET w1 == Df(w, Null, DataOf(data))
            IN IF w1.crashed \/ w1.over THEN w1 ELSE AfterDone(w1)
  ELSE IF \E x \in unsollicited : Test(x, data)
  THEN IF Test("SBDRING", data) THEN sbdring(w) ELSE areg(w, data)
  ELSE IF \E x \in errors : Test(x, data)
  THEN LET w1 == Df([w EXCEPT !.gh.errDone = (@ \/ w.gh.dfCalls = 0)], "ERROR", Text("string", w.buffer))
       IN IF w1.crashed \/ w1.over THEN w1 ELSE AfterDone([w1 EXCEPT !.buffer = <<>>])
  ELSE LET keep == Falsy(w.kr) \/ Test(w.kr, data)
           w1 == IF ~keep THEN w
                 ELSE IF Len(w.buffer) >= MaxBuf THEN [w EXCEPT !.over = TRUE]
                 ELSE [w EXCEPT !.buffer = Append(@, data), !.gh.kept = Append(@, data)]
       IN IF w1.over \/ ~Test(w.er, data) THEN w1
          ELSE LET w2 == Df(w1, Null, Text("string", w1.buffer))
               IN IF w2.crashed \/ w2.over THEN w2 ELSE AfterDone([w2 EXCEPT !.buffer = <<>>])



-----------------------------------------------------------------------------
(* Initial state: after createIridium() and open() *)

Init ==
  /\ legacy \in BOOLEAN
  /\ er = Undefined /\ kr = Undefined /\ df = UndefCont /\ tf = NoTimer
  /\ buffer = <<>>
  /\ timers = EmptyBag
  /\ lock = 0
  /\ pending = [str |-> FALSE, v |-> 0]
  /\ c_attempt = UndefNum
  /\ messagePending = 0
  /\ binary = [mode |-> FALSE, waiting |-> FALSE]
  /\ reqs = [r \in Rids |-> NoReq]
  /\ crashed = FALSE
  /\ out = Out0
  /\ gh = [dfCalls |-> 0, stale |-> FALSE, ix |-> NoIx, readyErr |-> FALSE,
           errDone |-> FALSE, kept |-> <<>>, ackErr |-> FALSE, moDone |-> {}]
  /\ boot = Boot0
  /\ fr = Framer0
  /\ cx = Codec0

Free == {r \in Rids : reqs[r].origin = "none"}
NextRid == CHOOSE r \in Free : \A x \in Free : r <= x

NewReq(origin, msg, parent) ==
  [NoReq EXCEPT !.origin = origin, !.msg = msg, !.parent = parent]

\* the state at the start of the handler of event `op`
On(op) == [World EXCEPT !.out.op = op]

WithReq(origin, msg, parent) ==
  [On(origin) EXCEPT !.reqs[NextRid] = NewReq(origin, msg, parent)]

-----------------------------------------------------------------------------
(* Calls of the API *)

\* iridium.sendMessage({message: msg}, callback)
CallSendMessage(msg) ==
  /\ ~crashed /\ Free # {}
  /\ Commit(sendMessage(WithReq("sendMessage", msg, 0), NextRid))

\* iridium.sendBinaryMessage({message: msg}, callback)
CallSendBinaryMessage(msg) ==
  /\ ~crashed /\ Free # {}
  /\ Commit(sendBinaryMessage(WithReq("sendBinaryMessage", msg, 0), NextRid))

\* iridium.sendCompressedMessage(text, callback), at the callback of zlib.deflateRaw
sendCompressedMessage ==
  /\ ~crashed /\ Free # {}
  /\ Commit(mailboxSend([WithReq("sendCompressedMessage", "bin", 0) EXCEPT !.c_attempt = 0],
                        NextRid))

\* iridium.mailboxSend(buffer, callback) called directly
CallMailboxSend ==
  /\ ~crashed /\ Free # {}
  /\ Commit(mailboxSend(WithReq("mailboxSend", "bin", 0), NextRid))

\* iridium.mailboxCheck()
mailboxCheck ==
  /\ ~crashed
  /\ IF lock # 0
     THEN /\ PendingNum(pending) < MaxPending
          /\ Commit([On("mailboxCheck") EXCEPT !.pending = PendingInc(@)])
     ELSE /\ Free # {}
          /\ Commit(sendMessage(WithReq("mailboxCheck", "empty", 0), NextRid))

-----------------------------------------------------------------------------
(* Frames from the modem *)

\* a line frame reaches parser.on('data')
LineFrame(data) ==
  /\ ~crashed /\ ~binary.mode
  /\ Commit(Parser([On("data") EXCEPT !.out.data = data], data))

\* the binary window's flush: push(data), then bufferCounter = 0 and mode = false
BlobFrame(data, fill) ==
  /\ ~crashed /\ binary.mode
  /\ LET w1 == Parser([On("data") EXCEPT !.binary.waiting = FALSE, !.fill = fill,
                                       !.out.data = data], data)
     IN Commit(IF w1.crashed THEN w1 ELSE [w1 EXCEPT !.binary.mode = FALSE])

-----------------------------------------------------------------------------
(* Timers *)

Fired(t) == [On(t.k) EXCEPT !.timers = @ (-) SetToBag({t})]

\* the timer AT arms: part_000 only logs, index.js calls datafunction()
CommandTimeout(t) ==
  /\ ~crashed /\ BagIn(t, timers) /\ t.k = "at"
  /\ IF legacy
     THEN Commit(RunCont([Fired(t) EXCEPT !.gh.stale = (@ \/ t # tf)],
                         t.c, Undefined, NoText, "timer"))
     ELSE Commit(Fired(t))

\* mailboxSend's 20 s backoff: mailboxSend(buffer, callback) again
RetryTimer(t) ==
  /\ ~crashed /\ BagIn(t, timers) /\ t.k = "retry"
  /\ Commit(mailboxSend(Fired(t), t.c.r))

\* mailboxSend's 1 s follow-up: sendMessage({ message: '' })
CheckTimer(t) ==
  /\ ~crashed /\ BagIn(t, timers) /\ t.k = "check"
  /\ Free # {}
  /\ Commit(sendMessage([Fired(t) EXCEPT !.reqs[NextRid] = NewReq("followup", "empty", t.c.r)],
                        NextRid))

Messages == {"empty", "text", "bin"}

-----------------------------------------------------------------------------
(* Startup *)

\* the serial port's 'open' event, globals.flowControl being flowControl
Open(flowControl) ==
  /\ ~crashed /\ ~boot.opened
  /\ LET w == [On("open") EXCEPT !.boot.opened = TRUE, !.boot.flowControl = flowControl]
     IN Commit(IF flowControl THEN init(w)
               ELSE disableFlowControl(w, Cont("init", 0, Null, NoSn, 0)))

-----------------------------------------------------------------------------
(* One direct send, every frame of the alphabet, the command timer *)

FirstSend == Free = Rids

NextSession ==
  \/ \E msg \in Messages : FirstSend /\ CallSendMessage(msg)
  \/ \E msg \in Messages : FirstSend /\ CallSendBinaryMessage(msg)
  \/ \E data \in Lines : LineFrame(data)
  \/ \E data \in Blobs, fill \in Filler : BlobFrame(data, fill)
  \/ \E t \in BagToSet(timers) : CommandTimeout(t)

SpecSession == Init /\ [][NextSession]_vars

(* The framer: chunks from the serial port, binary windows *)

\* _serialPort.pipe(readSBD): a chunk arrives
Chunk(chunk) ==
  /\ ~crashed
  /\ fr.total + Len(chunk) <= MaxBytes
  /\ Commit(readSBD([On("chunk") EXCEPT !.fr.total = @ + Len(chunk)], chunk))

\* enableBinaryMode(bufferTimeout), as readBinaryMessage calls it: a new window
EnterBinaryMode ==
  /\ ~crashed /\ fr.timeout # "pending" /\ fr.entries < MaxEntries
  /\ Commit([enableBinaryMode(On("enableBinaryMode")) EXCEPT
               !.fr.timeout = "pending", !.fr.then = FALSE, !.fr.bin = <<>>,
               !.fr.atEntry = Len(fr.frames), !.fr.entries = @ + 1])

\* setTimeout(resolve, bufferTimeout) fires: the promise resolves and an attached
\* flush runs
WindowElapsed ==
  /\ ~crashed /\ fr.timeout = "pending"
  /\ LET w == [On("window") EXCEPT !.fr.timeout = "resolved"]
     IN Commit(IF fr.then THEN flush(w) ELSE w)

Bytes == {65, CR, LF}
Chunks == {<<b>> : b \in Bytes} \cup {<<a, b>> : a, b \in Bytes}

NextFramer ==
  \/ \E chunk \in Chunks : Chunk(chunk)
  \/ EnterBinaryMode
  \/ WindowElapsed

SpecFramer == Init /\ [][NextFramer]_vars

(* The scratch buffer: long chunks during binary mode *)

\* _serialPort.pipe(readSBD): a long chunk arrives in binary mode while the scratch
\* buffer has room left
Burst(chunk) ==
  /\ ~crashed /\ binary.mode /\ Len(fr.buffer) < scratchSize
  /\ Commit(readSBD(On("burst"), chunk))

\* a chunk of LongRun bytes: two of them exceed the capacity of the scratch buffer
Bursts == {[i \in 1..LongRun |-> 65]}

\* the short chunks fed between them, in either mode
ShortChunks == {<<65>>, <<LF>>, <<65, LF>>}

NextScratch ==
  \/ \E chunk \in ShortChunks : Chunk(chunk)
  \/ \E chunk \in Bursts : Burst(chunk)
  \/ EnterBinaryMode
  \/ WindowElapsed

SpecScratch == Init /\ [][NextScratch]_vars

(* The codec: the framing of sendBinaryMessage, the parse of readBinaryMessage *)

PayloadBytes == {0, 1, 2, 3}

\* n bytes b
Run(b, n) == [i \in 1..n |-> b]

\* state.message: every short payload, and long runs of 0xff around a sum of 65536
Payloads ==
  UNION {[1..n -> PayloadBytes] : n \in 1..MaxPayload}
    \cup {Run(255, n) \o t : n \in {LongRun - 1, LongRun}, t \in {<<>>, <<1>>}}

\* sendBinaryMessage frames a payload that is not empty
Encode(p) ==
  /\ cx.stage = "idle"
  /\ cx' = [cx EXCEPT !.stage = "encoded", !.p = p,
                      !.command = encodeWrite(p).command, !.ob = encodeWrite(p).ob]
  /\ UNCHANGED <<legacy, er, kr, df, tf, buffer, timers, lock, pending, c_attempt,
                 messagePending, binary, reqs, crashed, out, gh, boot, fr>>

\* the parse of readBinaryMessage applied to `blob`
Decode(stage, blob, fill) ==
  /\ cx.stage = "encoded"
  /\ cx' = IF Len(blob) < 2                                    \* RangeError
           THEN [cx EXCEPT !.stage = stage, !.blob = blob, !.threw = TRUE]
           ELSE [cx EXCEPT !.stage = stage, !.blob = blob, !.back = decodeRead(blob, fill)]
  /\ UNCHANGED <<legacy, er, kr, df, tf, buffer, timers, lock, pending, c_attempt,
                 messagePending, binary, reqs, crashed, out, gh, boot, fr>>

\* the first len(p) bytes of the framed bytes
Slice == SubSeq(cx.ob, 1, Len(cx.p))

\* what AT+SBDRB delivers for a message holding the framed bytes: a two-byte
\* big-endian length, the payload, the two-byte sum
Delivered == <<Len(cx.p) \div 256, Len(cx.p) % 256>> \o cx.ob

NextCodec ==
  \/ \E p \in Payloads : Encode(p)
  \/ \E fill \in Filler : Decode("sliced", Slice, fill)
  \/ \E fill \in Filler : Decode("delivered", Delivered, fill)

SpecCodec == Init /\ [][NextCodec]_vars

(* The startup sequence with the frames and the command timer that follow *)

InitLines == { Line("OK"), Line("ERROR"), Line("READY"), Line("SBDRING"), Ciev(5) }

NextInit ==
  \/ \E flowControl \in BOOLEAN : Open(flowControl)
  \/ \E data \in InitLines : LineFrame(data)
  \/ \E t \in BagToSet(timers) : CommandTimeout(t)

SpecInit == Init /\ [][NextInit]_vars

(* The mailbox layer: overlapping sends and checks, the backoff and follow-up timers *)

MailboxLines == { Line("OK"), Line("READY"), Line("ERROR"), Ciev(5),
                  Sbdix(0, 7, 0, 0), Sbdix(4, 8, 1, 1) }
MailboxBlobs == { Blob(<<0, 1, 65>>) }

NextMailbox ==
  \/ sendCompressedMessage
  \/ CallMailboxSend
  \/ mailboxCheck
  \/ \E data \in MailboxLines : LineFrame(data)
  \/ \E data \in MailboxBlobs, fill \in Filler : BlobFrame(data, fill)
  \/ \E t \in BagToSet(timers) : CommandTimeout(t)
  \/ \E t \in BagToSet(timers) : RetryTimer(t)
  \/ \E t \in BagToSet(timers) : CheckTimer(t)

SpecMailbox == Init /\ [][NextMailbox]_vars

-----------------------------------------------------------------------------
(* Properties of the sends, the session and the command engine *)

\* a send made through sendMessage / sendBinaryMessage by the caller
Direct(r) == reqs[r].origin \in {"sendMessage", "sendBinaryMessage"}

\* the command a submission of send q writes first
FirstWrite(q) ==
  IF q.msg = "empty" THEN "AT+SBDD0"
  ELSE IF q.origin = "sendBinaryMessage" THEN "AT+SBDWB" ELSE "AT+SBDWT"

\* the number of armed follow-up timers
ChecksArmed(bag) ==
  BagCardinality([t \in {x \in BagToSet(bag) : x.k = "check"} |-> bag[t]])

\* C1: the callback given to one sendMessage / sendBinaryMessage call is invoked exactly
\* once for that send, its retries included.  Stated here is the half that a state can
\* show: it is never invoked a second time.
C1_CallbackOnce == \A r \in Rids : Direct(r) => reqs[r].cbCount <= 1

\* C2: when a session reports a moStatus above 4, AT+SBDD0 is issued and nothing else
\* happens in that step; when that clear completes, a send with failCount below 3 has
\* failCount incremented and is resubmitted with its payload in its mode, and a send with
\* failCount 3 has its callback invoked with the failure named after the status (18: radio
\* failure, 32: network failure, other: unknown failure) and is not resubmitted.
C2_Step ==
  /\ out'.ix.s > 4 =>
       /\ out'.write = [cmd |-> "AT+SBDD0", r |-> out'.run.r]
       /\ out'.cb = NoCb /\ out'.nm = NoNm
       /\ reqs'[out'.run.r].failCount = reqs[out'.run.r].failCount
  /\ out'.run.k = "clr_retry" /\ Direct(out'.run.r) =>
       LET r == out'.run.r
       IN IF reqs[r].failCount < 3
          THEN /\ reqs'[r].failCount = reqs[r].failCount + 1
               /\ out'.write = [cmd |-> FirstWrite(reqs[r]), r |-> r]
               /\ reqs'[r].msg = reqs[r].msg
               /\ out'.cb = NoCb
          ELSE /\ reqs'[r].failCount = 3
               /\ out'.write = NoWrite
               /\ out'.cb = [r |-> r, sn |-> NoSn,
                             err |-> CASE gh.ix.s = 18 -> "radio failure"
                                       [] gh.ix.s = 32 -> "network failure"
                                       [] OTHER -> "unknown failure"]

C2_RetryPolicy == [][C2_Step]_vars

\* a send whose every session reported 18 ends, after three resubmissions, in 'radio failure'
C2_Witness ==
  \E r \in Rids : /\ Direct(r) /\ reqs[r].failCount = 3 /\ out.run.k = "clr_retry"
                  /\ out.cb = [r |-> r, err |-> "radio failure", sn |-> NoSn]

\* C3: when a session reports moStatus 0..4 with mtStatus 0, the step issues AT+SBDD0,
\* leaves failCount alone, resubmits nothing and calls nobody; the callback is invoked
\* when that clear completes, with the clear's error and the second field of the session
\* report as momsn, and no other completion hands the callback a momsn.
C3_Step ==
  /\ out'.ix.s \in 0..4 /\ out'.ix.ms = 0 =>
       /\ out'.write = [cmd |-> "AT+SBDD0", r |-> out'.run.r]
       /\ out'.cb = NoCb /\ out'.nm = NoNm
       /\ reqs'[out'.run.r].failCount = reqs[out'.run.r].failCount
  /\ out'.run.k = "fin" /\ Direct(out'.run.r) =>
       /\ out'.cb = [r |-> out'.run.r, sn |-> gh.ix.sn,
                     err |-> IF out'.run.by = "timer" THEN Undefined
                             ELSE IF out'.data.t = "ERROR" THEN "ERROR" ELSE Null]
       /\ out'.write = NoWrite
       /\ reqs'[out'.run.r].failCount = reqs[out'.run.r].failCount
  /\ out'.cb.r # 0 /\ out'.cb.sn # NoSn => out'.run.k = "fin"

C4_Step ==
  lock # 0 /\ out'.op = "mailboxCheck" =>
    /\ PendingNum(pending') = PendingNum(pending) + 1
    /\ out'.write = NoWrite

C4_LockedCheck == [][C4_Step]_vars

\* two calls made while the lock is held took the counter from 0 to 2 and wrote nothing
C4_Witness ==
  /\ lock = 1 /\ out.op = "mailboxCheck" /\ out.write = NoWrite
  /\ pending = [str |-> FALSE, v |-> 2]

\* C5: when a send completes in mailboxSend without error: if pending > 0, one follow-up
\* timer more is armed and the lock stays held, otherwise the lock is released and no
\* follow-up is armed; a follow-up timer that fires starts one send with an empty
\* payload, whose first command is AT+SBDD0.
C5_Step ==
  /\ out'.cb.r # 0 /\ out'.cb.err = False =>
       IF PendingNum(pending) > 0
       THEN /\ ChecksArmed(timers') = ChecksArmed(timers) + 1
            /\ lock' = lock /\ out'.write = NoWrite
       ELSE /\ ChecksArmed(timers') = ChecksArmed(timers)
            /\ lock' = 0 /\ out'.write = NoWrite
  /\ out'.op = "check" =>
       /\ ChecksArmed(timers') = ChecksArmed(timers) - 1
       /\ \E r \in Rids : /\ reqs[r].origin = "none" /\ reqs'[r].origin = "followup"
                          /\ reqs'[r].msg = "empty"
                          /\ out'.write = [cmd |-> "AT+SBDD0", r |-> r]
                          /\ \A x \in Rids \ {r} : reqs'[x] = reqs[x]
  /\ ChecksArmed(timers') > ChecksArmed(timers) => out'.cb.r # 0 /\ out'.cb.err = False

C6_OneCycle ==
  \A r1, r2 \in Rids : r1 # r2 /\ reqs[r1].active => out.write.r # r2

\* C7: one payload given to sendCompressedMessage / mailboxSend runs at most maxAttempts
\* send cycles.
C7_AttemptCeiling ==
  \A r \in Rids : reqs[r].origin \in {"sendCompressedMessage", "mailboxSend"}
                    => reqs[r].cycles <= maxAttempts

\* C8: once AT is called while a command is pending, the earlier command is abandoned:
\* its timer is no longer armed (the only armed command timer is tf, once), and no timer
\* of a superseded command ever ran its callback.
C8_Abandoned ==
  /\ \A t \in BagToSet(timers) : t.k = "at" => t = tf /\ CopiesIn(t, timers) = 1
  /\ ~gh.stale

\* AT superseded a command that had not completed and whose timer was armed
C8_Witness == out.sup /\ out.supArmed /\ out.write.r # 0

\* C9: the completion callback of one AT call is invoked at most once.
C9_AtMostOnce == gh.dfCalls <= 1

\* C10: a session reporting mtStatus 1 and mtQueued q issues the binary read and calls
\* nobody; the read's completion emits 'newmessage' once, with the payload decoded from
\* the length-prefixed blob and with q, and does not invoke the callback; when the
\* callback is invoked for that session, exactly one 'newmessage' has been emitted.
C10_NewMessage ==
  /\ out.ix.s \in 0..4 /\ out.ix.ms = 1 =>
       out.write.cmd = "AT+SBDRB" /\ out.cb = NoCb /\ out.nm = NoNm
  /\ out.nm.n # 0 =>
       /\ out.nm.n = 1 /\ out.run.k = "rb" /\ out.nm.r = out.run.r
       /\ gh.ix.s \in 0..4 /\ gh.ix.ms = 1 /\ out.nm.queued = gh.ix.q
       /\ Len(out.nm.payload) = out.data.blob[1] * 256 + out.data.blob[2]
       /\ \A i \in 1..Len(out.nm.payload) :
            i + 2 <= Len(out.data.blob) => out.nm.payload[i] = out.data.blob[i + 2]
       /\ out.cb = NoCb
  /\ \A r \in Rids : reqs[r].nm <= 1
  /\ out.cb.r # 0 /\ out.run.k = "fin" /\ gh.ix.ms = 1 => reqs[out.cb.r].nm = 1

\* the blob 00 02 41 42 read after a session reporting mtQueued 2 was emitted as "AB", 2
C10_Witness ==
  /\ out.nm = [n |-> 1, payload |-> <<65, 66>>, queued |-> 2, r |-> out.run.r]
  /\ out.data.blob = <<0, 2, 65, 66>>

\* C11: 'initialized' is emitted only after echoOff, clearBuffers, enableRegistration and
\* ringAlertEnable were each completed, in that order, by a frame matching their end
\* pattern and without error; once one of the four has ended in error it is not emitted;
\* and with flowControl false the series was started behind AT&K0.
C11_Initialized ==
  /\ boot.emitted > 0 => boot.answered = InitTasks
  /\ boot.failed => boot.emitted = 0
  /\ boot.emitted <= 1

\* the positions of the newlines of s, and the k-th of them
NLs(s) == {i \in 1..Len(s) : s[i] = LF}
NthNL(s, k) == CHOOSE i \in NLs(s) : Cardinality({j \in NLs(s) : j <= i}) = k

\* the newline-terminated segments of s, without the newline
Segments(s) ==
  [k \in 1..Cardinality(NLs(s)) |->
     LineFrameOf(SubSeq(s, IF k = 1 THEN 1 ELSE NthNL(s, k - 1) + 1, NthNL(s, k) - 1))]

\* what follows the last newline of s
Remainder(s) ==
  SubSeq(s, IF NLs(s) = {} THEN 1 ELSE NthNL(s, Cardinality(NLs(s))) + 1, Len(s))

\* C12: in line mode, however the bytes were split into chunks, the frames emitted are
\* the newline-terminated segments of all the bytes fed, in order and without the
\* newline, the remainder kept is what follows the last newline, and nothing fails.
C12_LineFraming ==
  fr.entries = 0 =>
    /\ ~crashed
    /\ fr.frames = Segments(fr.fed)
    /\ fr.data = Remainder(fr.fed)

\* C13: while the window of a binary entry is open no frame is emitted; once it has
\* elapsed, the chunks received during it have been emitted as one blob frame holding
\* their concatenation, and no other blob frame follows for that entry.
C13_BinaryCapture ==
  /\ fr.timeout = "pending" => Len(fr.frames) = fr.atEntry /\ binary.mode
  /\ fr.timeout = "resolved" /\ fr.bin # <<>> =>
       /\ ~fr.rejected
       /\ Len(fr.frames) > fr.atEntry
       /\ fr.frames[fr.atEntry + 1] = BlobFrameOf(fr.bin)
       /\ \A i \in (fr.atEntry + 2)..Len(fr.frames) : fr.frames[i].kind = "line"

\* C14: once the window of a binary entry has elapsed, the receive mode is Line again,
\* the scratch counter is zero and the flush did not fail, whatever was received.
C14_BackToLine ==
  fr.timeout = "resolved" => ~binary.mode /\ fr.buffer = <<>> /\ ~fr.rejected

\* C17: the framed bytes are written only by the handler of a frame matching READY
\* received while the AT+SBDWB command is the pending one; once that wait has ended
\* with an error line they are not written.
C17_WriteAfterReady ==
  [][/\ out'.write.cmd = "ob" =>
          /\ df.k = "sbm_ready" /\ er = "READY"
          /\ out'.op = "data" /\ Test("READY", out'.data)
     /\ gh'.readyErr => out'.write.cmd # "ob"]_vars

\* C18: a command issued inside a completion callback is the pending command when
\* the frame handler that ran the callback returns (its end pattern, keep pattern and
\* callback are the installed ones), and the next frame matching its end pattern
\* invokes its callback.
C18_NestedCommand ==
  [][/\ (out'.op = "data" /\ out'.run.by = "frame" /\ out'.write # NoWrite /\ ~crashed')
          => (er' = out'.issued.er /\ kr' = out'.issued.kr /\ df' = out'.issued.df)
     /\ (/\ out.op = "data" /\ out.run.by = "frame" /\ out.write # NoWrite /\ ~crashed
         /\ out'.op = "data" /\ ~Falsy(out.issued.er) /\ Test(out.issued.er, out'.data)
         /\ (\A x \in unsollicited \cup errors : ~Test(x, out'.data)))
          => out'.run = [k |-> out.issued.df.k, r |-> out.issued.df.r, by |-> "frame"]
    ]_vars

\* no command is pending: none was issued yet, or the one issued last has completed
NoCommandPending == df.k \in {Null, Undefined} \/ gh.dfCalls > 0

\* C19: a frame received while no command is pending is discarded: the handler invokes
\* no callback, leaves the response buffer and the pending command state as they were
\* and does not fail, before the first command as well as after a completion.
C19_Discarded ==
  [][(NoCommandPending /\ ~crashed /\ out'.op = "data")
       => /\ ~crashed'
          /\ out'.run = NoRun /\ out'.cb = NoCb /\ out'.write = NoWrite
          /\ buffer' = buffer /\ er' = er /\ kr' = kr /\ df' = df]_vars

\* the timer armed for the pending command has fired
TimedOut == tf.k = "at" /\ ~BagIn(tf, timers)

\* C20: the handler of the command timer invokes no callback and leaves the command
\* pending (end pattern, keep pattern, callback and buffer as they were); a later frame
\* matching the end pattern of a command whose timer has fired runs its callback, and
\* such a command is completed at most once.
C20_TimeoutObserved ==
  [][/\ (out'.op = "at")
          => /\ out'.run = NoRun /\ out'.cb = NoCb /\ out'.write = NoWrite
             /\ er' = er /\ kr' = kr /\ df' = df /\ buffer' = buffer /\ ~crashed'
     /\ (/\ TimedOut /\ gh.dfCalls = 0 /\ ~crashed /\ df.k \notin {Null, Undefined}
         /\ out'.op = "data" /\ ~Falsy(er) /\ Test(er, out'.data)
         /\ (\A x \in unsollicited \cup errors : ~Test(x, out'.data)))
          => out'.run = [k |-> df.k, r |-> df.r, by |-> "frame"]
     /\ (TimedOut => gh.dfCalls <= 1)'
    ]_vars

\* the handler named by the unsolicited pattern a frame matches
Handler(data) == IF Test("SBDRING", data) THEN "sbdring" ELSE "areg"

\* C21: a frame matching /^SBDRING/ or /^\+AREG/ received while a command with an end
\* pattern is pending goes to its handler and to nothing else: the pending command, its
\* timer and the response buffer stay as they were, no callback runs and nothing is
\* written, also when the frame matches the end, keep or error pattern as well.
C21_Unsolicited ==
  [][(/\ ~crashed /\ ~Falsy(er) /\ out'.op = "data"
      /\ (\E x \in unsollicited : Test(x, out'.data)))
       => /\ (~crashed' => out'.unsol = Handler(out'.data))
          /\ er' = er /\ kr' = kr /\ df' = df /\ tf' = tf /\ timers' = timers
          /\ buffer' = buffer /\ gh' = gh
          /\ out'.run = NoRun /\ out'.cb = NoCb /\ out'.write = NoWrite
    ]_vars

\* a ring alert that also matches the end pattern and the keep pattern of the pending
\* command has been dispatched to sbdring
C21_Witness ==
  /\ out.op = "data" /\ out.unsol = "sbdring" /\ out.data.t = "RINGREADY"
  /\ er = "READY" /\ df.k = "sbm_ready" /\ BagIn(tf, timers)

\* a command is pending: issued, with an end pattern, and not completed
CommandPending == ~Falsy(er) /\ df.k \notin {Null, Undefined} /\ gh.dfCalls = 0

\* C22: a frame that matches no unsolicited pattern and matches /ERROR/, received while
\* a command is pending, runs that command's callback at once with the matched pattern
\* as the error and leaves the response buffer empty; the callback of a command
\* completed by an error frame is not run a second time.
C22_ErrorFrame ==
  [][/\ (/\ CommandPending /\ ~crashed /\ out'.op = "data"
         /\ (\A x \in unsollicited : ~Test(x, out'.data))
         /\ (\E x \in errors : Test(x, out'.data)))
          => /\ out'.run = [k |-> df.k, r |-> df.r, by |-> "frame"]
             /\ out'.err = "ERROR"
             /\ ~crashed' /\ buffer' = <<>>
     /\ (gh.errDone => gh.dfCalls <= 1)'
    ]_vars

\* the frame, if the keep pattern (absent or matching) retains it
KeptOf(data) == IF Falsy(kr) \/ Test(kr, data) THEN <<data>> ELSE <<>>

\* C23: while a command with keep pattern K and end pattern E is pending, a frame that
\* is neither unsolicited nor an error and does not match E runs no callback and is
\* appended to the response buffer exactly when it matches K; the first such frame that
\* matches E runs the command's callback without error, with the frames received since
\* the command was issued that matched K, in arrival order, the end frame included when
\* it matches K, and leaves the response buffer empty.
C23_KeepAndEnd ==
  [][(/\ CommandPending /\ ~crashed /\ out'.op = "data"
      /\ (\A x \in unsollicited \cup errors : ~Test(x, out'.data)))
       => IF Test(er, out'.data)
          THEN /\ out'.run = [k |-> df.k, r |-> df.r, by |-> "frame"]
               /\ Falsy(out'.err)
               /\ out'.text = Text("string", gh.kept \o KeptOf(out'.data))
               /\ buffer' = <<>>
          ELSE /\ out'.run = NoRun
               /\ buffer' = buffer \o KeptOf(out'.data)
    ]_vars

\* C24: AT+CIER=1,1,0,0 is issued only by the successful completion of the write
\* command, AT+CIER=0,0,0,0 only by a frame +CIEV:0,n with n not 0 completing the wait
\* for the network, and AT+SBDIX only by a frame completing AT+CIER=0,0,0,0; so the
\* session starts only after these three, in this order, and never on +CIEV:0,0.
C24_StepOrder ==
  [][/\ (out'.write.cmd = "AT+CIER=1,1,0,0")
          => /\ out'.op = "data" /\ df.k \in {"sm_write", "sbm_ack"}
             /\ out'.run = [k |-> df.k, r |-> df.r, by |-> "frame"]
             /\ Falsy(out'.err) /\ Test("OK", out'.data)
     /\ (out'.write.cmd = "AT+CIER=0,0,0,0")
          => /\ out'.op = "data" /\ df.k = "net"
             /\ out'.run = [k |-> "net", r |-> df.r, by |-> "frame"]
             /\ Falsy(out'.err) /\ out'.data.t = "CIEV" /\ out'.data.s # 0
     /\ (out'.write.cmd = "AT+SBDIX")
          => /\ out'.op = "data" /\ df.k = "dis"
             /\ out'.run = [k |-> "dis", r |-> df.r, by |-> "frame"]
    ]_vars

\* what the handler that parsed a session result did about mtStatus: finish for 0,
\* the binary read for 1, finish without reading for any other value
MtDispatch ==
  IF out.ix.ms = 1
  THEN /\ out.write.cmd = "AT+SBDRB" /\ out.issued.df.k = "rb"
       /\ out.issued.df.q = out.ix.q /\ binary.mode
  ELSE /\ out.write.cmd = "AT+SBDD0" /\ out.issued.df.k = "fin"
       /\ out.issued.df.sn = out.ix.sn /\ ~binary.mode

\* C25 as stated: for every parsed session result, whatever moStatus is, mtStatus 0
\* proceeds to finish, mtStatus 1 starts the binary read, any other value finishes
\* without reading.
C25_AnyMoStatus == out.ix # NoIx => MtDispatch

\* C25: for every parsed session result with moStatus in 0..4, mtStatus 0 proceeds to
\* finish, mtStatus 1 starts the binary read whose completion emits 'newmessage', any
\* other value finishes without reading; with moStatus above 4 mtStatus is not
\* inspected: AT+SBDD0 is issued for the retry policy and no read is started.
C25_MtAfterMoSuccess ==
  /\ out.ix # NoIx =>
       IF out.ix.s <= 4 THEN MtDispatch
       ELSE /\ out.write.cmd = "AT+SBDD0" /\ out.issued.df.k = "clr_retry"
            /\ ~binary.mode /\ out.nm = NoNm
  /\ out.nm.n # 0 => out.run.k = "rb" /\ gh.ix.s <= 4 /\ gh.ix.ms = 1

\* a session result with moStatus 18 and mtStatus 1 was parsed: AT+SBDD0 was issued
\* for the retry and no read was started
C25_Witness ==
  /\ out.ix.s = 18 /\ out.ix.ms = 1
  /\ out.write.cmd = "AT+SBDD0" /\ out.issued.df.k = "clr_retry" /\ ~binary.mode

\* C26: when AT+SBDIX completes without error and its result holds no well-formed
\* six-field +SBDIX line, the handler does not fail and does not retry: it issues
\* AT+SBDD0, whose completion invokes the caller's callback with an undefined sequence
\* number.
C26_ParseFailure ==
  (/\ out.run.k = "ix" /\ out.run.by = "frame" /\ Falsy(out.err)
   /\ out.text.kind = "string" /\ WellFormed(out.text.lines) = {})
    => /\ ~crashed
       /\ out.write.cmd = "AT+SBDD0"
       /\ out.issued.df = Cont("fin", out.run.r, Null, NoSn, 0)

\* the binary write of the send in progress was aborted
Aborted == gh.readyErr \/ gh.ackErr

\* C27: when the wait for READY or the acknowledgment of the framed bytes ends in
\* error, the handler issues AT+SBDD0 and calls nobody; from then on no network wait,
\* no session and no write of the framed bytes follow, and the caller's callback is
\* invoked only by a frame completing that AT+SBDD0, with the original error.
C27_AbortedWrite ==
  [][/\ (out'.run.k \in {"sbm_ready", "sbm_ack"} /\ ~Falsy(out'.err))
          => /\ out'.write.cmd = "AT+SBDD0"
             /\ out'.issued.df = Cont("clr_err", out'.run.r, out'.err, NoSn, 0)
             /\ out'.cb = NoCb /\ Aborted'
     /\ (Aborted /\ Aborted')
          => /\ out'.write.cmd \notin {"ob", "AT+CIER=1,1,0,0", "AT+CIER=0,0,0,0", "AT+SBDIX"}
             /\ (out'.cb # NoCb)
                  => /\ out'.op = "data" /\ df.k = "clr_err"
                     /\ out'.run = [k |-> "clr_err", r |-> df.r, by |-> "frame"]
                     /\ out'.cb = [r |-> df.r, err |-> "ERROR", sn |-> NoSn]
    ]_vars

\* nothing is left to happen: the modem has answered every command and no timer is
\* armed
Idle ==
  /\ ~crashed /\ timers = EmptyBag
  /\ (df.k = Undefined \/ gh.dfCalls > 0)

\* C28: the lock is not held forever: once the modem has answered every command and no
\* timer is left (so that nothing more will happen by itself), the lock is 0 again, and
\* a mailboxCheck() made then issues a command.
C28_LockReleased == Idle => lock = 0

\* a payload handed to mailboxSend (by sendCompressedMessage or directly)
Mailed(r) == r \in Rids /\ reqs[r].origin \in {"sendCompressedMessage", "mailboxSend"}

\* C29: once a session for a payload sent through mailboxSend has reported an MO status
\* of 0..4, neither AT+SBDWB nor the framed bytes are written for that payload again,
\* whatever the outcome of the clear-buffer command or of the MT read that follows.
C29_NoDuplicate ==
  (out.write.cmd \in {"AT+SBDWB", "ob"} /\ Mailed(out.write.r)) => out.write.r \notin gh.moDone

\* every line of `lines` is one of `since`, and there are no more of them
OnlyFrom(lines, since) ==
  /\ Len(lines) <= Len(since)
  /\ \A i \in 1..Len(lines) : \E j \in 1..Len(since) : lines[i] = since[j]

\* C30: the response lines a frame hands to a command's callback are frames received
\* since that command was issued (the frames kept since then and the frame at hand):
\* no line kept for an earlier, superseded command is among them.
C30_OwnFramesOnly ==
  [][(out'.op = "data" /\ out'.run.by = "frame" /\ out'.text.kind = "string")
       => OnlyFrom(out'.text.lines, Append(gh.kept, out'.data))
    ]_vars

\* C31: the scratch counter (the length of the filled part of binary.buffer) is between
\* 0 and the capacity of 512 in every state; when more bytes than the capacity arrived
\* during a window the counter is exactly the capacity, the excess being dropped; and
\* the counter is 0 whenever the receive mode is Line.
C31_ScratchBounded ==
  /\ 0 <= Len(fr.buffer) /\ Len(fr.buffer) <= scratchSize
  /\ (fr.timeout = "pending" /\ Len(fr.bin) >= scratchSize) => Len(fr.buffer) = scratchSize
  /\ ~binary.mode => fr.buffer = <<>>

\* more bytes than the capacity arrived during the open window
C31_Witness ==
  binary.mode /\ fr.timeout = "pending" /\ Len(fr.bin) > scratchSize /\ Len(fr.buffer) = scratchSize

-----------------------------------------------------------------------------
(* Properties of the codec *)

\* C15: for every payload p the command is 'AT+SBDWB=' followed by len(p), and
\* the framed bytes are p followed by two bytes holding sum(p) mod 65536,
\* high byte first, also when the sum of the bytes exceeds 65535.
C15_EncodeWrite ==
  cx.stage # "idle" =>
    LET n == Len(cx.p)
        trailer == cx.ob[n + 1] * 256 + cx.ob[n + 2]
    IN /\ cx.command = [text |-> "AT+SBDWB=", n |-> n]
       /\ Len(cx.ob) = n + 2
       /\ SubSeq(cx.ob, 1, n) = cx.p
       /\ cx.ob[n + 1] \in 0..255 /\ cx.ob[n + 2] \in 0..255
       /\ trailer = SumBytes(cx.p) % 65536
       /\ (cx.p = <<1, 2, 3>> => <<cx.ob[n + 1], cx.ob[n + 2]>> = <<0, 6>>)

\* a payload whose bytes sum to more than 65535 has been framed
C15_Witness == cx.stage = "encoded" /\ SumBytes(cx.p) > 65535 /\ cx.ob[Len(cx.p) + 2] # 0

\* C16 as stated: the parse of the first len(p) bytes of the framed bytes of a
\* payload p that is not empty gives p back.
C16_SliceRoundTrip == cx.stage = "sliced" => ~cx.threw /\ cx.back = cx.p

\* C16: the parse of the framed bytes of p preceded by the two-byte big-endian
\* length of p gives p back, for every payload p that is not empty.
C16_RoundTrip == cx.stage = "delivered" => ~cx.threw /\ cx.back = cx.p

\* the round trip was made for a payload whose length needs no padding to read
C16_Witness == cx.stage = "delivered" /\ cx.back = cx.p /\ Len(cx.p) = MaxPayload

=============================================================================
